---- MODULE Spec2Model ----
(***************************************************************************)
(* Multi-tenant notes service: the backend API (Hono handlers over the     *)
(* tenants, users and notes tables) as a state machine.                    *)
(*                                                                         *)
(* Every SQL statement is one atomic step.  A handler that issues one      *)
(* statement is one action; a handler that issues several (POST /notes,    *)
(* PUT /notes/:id, DELETE /notes/:id) is one action per statement, and     *)
(* other requests interleave between them.  The steps of a handler that    *)
(* touch no storage (token verification, body validation) are folded into  *)
(* its first statement.                                                    *)
(***************************************************************************)
EXTENDS Integers, FiniteSets, Sequences, Bags, TLC

\* ---------------------------------------------------------------- bounds

\* Distinct tokens that login may issue.
MaxTokens == 2
\* Multi-statement requests in flight at the same time (concurrent specifications).
MaxInflight == 2
\* Note ids the notes sequence hands out, per specification.
MaxNotes == 1
SeqInflight == 1
CrudMaxNotes == 2
QuotaMaxNotes == 4
\* The last second of the clock.
MaxClock == 4
\* The last second of the clock where the notes handlers run with it.
ProvMaxClock == 2
\* A token's lifetime in seconds: expiresIn '7d' is 604800, scaled to the clock.
ExpiresIn == 2
\* Distinct signed tokens that login may issue (a claim signed at two times
\* is two tokens).
MaxJwts == 2

\* ------------------------------------------------------------- constants

\* The free plan's note limit (noteCount >= 3 is refused).
FreeLimit == 3

\* An absent JSON field (undefined in the handler, NULL in SQL).
Null == "<null>"

\* tenants.id is SERIAL: the seeded rows get 1 (acme) and 2 (globex).
TenantIds == {1, 2}

Slug(t) == IF t = 1 THEN "acme" ELSE "globex"

Slugs == {Slug(t) : t \in TenantIds}

\* The four seeded users; every password hash is bcrypt('password').
SeedUsers ==
    { [id |-> 1, email |-> "admin@acme.test",   role |-> "admin",  tenant_id |-> 1],
      [id |-> 2, email |-> "user@acme.test",    role |-> "member", tenant_id |-> 1],
      [id |-> 3, email |-> "admin@globex.test", role |-> "admin",  tenant_id |-> 2],
      [id |-> 4, email |-> "user@globex.test",  role |-> "member", tenant_id |-> 2] }

\* ---------------------------------------------------------- input domains

\* The one email that is not seeded: unknown to login until it is invited.
NewEmail == "new@acme.test"

LoginEmails == {u.email : u \in SeedUsers} \cup {NewEmail, ""}

PasswordInputs == {"password", "wrong", ""}

InviteEmails == {"", "admin@acme.test", NewEmail}

RoleInputs == {"admin", "member", "owner"}

CreateTitles == {"", "t1"}

CreateContents == {"", "c1"}

PutTitles == {Null, "t2"}

PutContents == {Null, "c2"}

\* What a request without a usable token carries in its Authorization header.
BadHeaders == {"missing", "notBearer", "invalidToken"}

ProtectedOps == {"list", "get", "create", "put", "delete", "upgrade", "invite"}

\* ------------------------------------------------------------------ state

VARIABLES
    plan,        \* tenants.plan, by tenant id
    users,       \* the users table
    notes,       \* the notes table
    nextNoteId,  \* the next value of the notes id sequence
    tokens,      \* the claims of the tokens issued so far
    inflight,    \* the bag of multi-statement requests between two statements
    resp,        \* the response the last step sent, NoResp if it sent none
    now,         \* the clock, in seconds (the unit of a token's iat and exp)
    jwts,        \* the signed tokens login has issued, as they go over the wire
    client       \* the browser: localStorage, the route and the page it renders

vars == <<plan, users, notes, nextNoteId, tokens, inflight, resp, now, jwts, client>>

\* What the backend handlers, taken without clock and browser, leave alone.
ext == <<now, jwts, client>>

NoAuth ==
    [sub |-> 0, email |-> "", role |-> "", tenantId |-> 0, tenantSlug |-> "",
     plan |-> ""]

NoResp ==
    [op |-> "", auth |-> NoAuth, id |-> 0, slug |-> "", status |-> 0,
     error |-> "", rows |-> {}]

\* A JSON response: status, the error field of an error body, the note rows of
\* a body that carries notes.
Reply(op, auth, id, slug, status, error, rows) ==
    [op |-> op, auth |-> auth, id |-> id, slug |-> slug, status |-> status,
     error |-> error, rows |-> rows]

\* A handler between two statements: its position, its claim, its inputs and
\* the tenant plan it has read (tplan, POST /notes only).
Request(op, pc, auth, id, title, content, tplan) ==
    [op |-> op, pc |-> pc, auth |-> auth, id |-> id, title |-> title,
     content |-> content, tplan |-> tplan]

Pending == BagToSet(inflight)

Suspend(r) == inflight (+) SetToBag({r})

Resume(r) == inflight (-) SetToBag({r})

\* The columns the note queries return (RETURNING / SELECT list): no tenant_id.
Row(n) ==
    [id |-> n.id, title |-> n.title, content |-> n.content, user_id |-> n.user_id,
     created_at |-> n.created_at, updated_at |-> n.updated_at]

\* !x of the handlers, for a JSON string field.
Falsy(x) == x = Null \/ x = ""

\* ----------------------------------------------------------------- tokens

\* signToken: the payload of the token is the claim.
signToken(payload) == payload

\* jwt.verify succeeds on exactly the tokens signToken has issued.
Verified(tok) == tok \in tokens

\* Mutant of RoleAllowed: the required role is not compared.
RoleAllowedAny(decoded, requiredRole) == TRUE

\* requireAuth(requiredRole): the role test after a successful verification.
RoleAllowed(decoded, requiredRole) ==
    requiredRole = "" \/ decoded.role = requiredRole

\* ----------------------------------------------------- tokens on the wire
\* jwt.sign and jwt.verify of jsonwebtoken, with the clock.  A token is
\* <<algorithm, body, signature>>: the body is the serialised payload (the
\* claim's fields followed by iat and exp), the signature the HMAC of the
\* algorithm and the body under the secret.  Time is in whole seconds.

JWT_SECRET == "secret"

\* The HMAC of a message under a key: equal exactly for equal key and message.
Hmac(key, alg, body) == <<key, alg, body>>

\* The payload's fields in serialisation order.
EncodePayload(payload, iat, exp) ==
    <<payload.sub, payload.email, payload.role, payload.tenantId,
      payload.tenantSlug, payload.plan, iat, exp>>

\* Mutant of jwtSign: the expiresIn option has no effect on verification (the
\* embedded expiry lies beyond the clock).
jwtSignNoExpiry(payload, t) ==
    LET body == EncodePayload(payload, t, t + ExpiresIn + MaxClock + 1)
    IN  <<"HS256", body, Hmac(JWT_SECRET, "HS256", body)>>

\* jwt.sign(payload, JWT_SECRET, {algorithm: 'HS256', expiresIn: '7d'}) at second t.
jwtSign(payload, t) ==
    LET body == EncodePayload(payload, t, t + ExpiresIn)
    IN  <<"HS256", body, Hmac(JWT_SECRET, "HS256", body)>>

\* The object jwt.verify returns: the payload with iat and exp.
DecodePayload(body) ==
    [sub |-> body[1], email |-> body[2], role |-> body[3], tenantId |-> body[4],
     tenantSlug |-> body[5], plan |-> body[6], iat |-> body[7], exp |-> body[8]]

\* The JWTPayload fields of a decoded token, the ones the handlers read.
AuthOf(decoded) ==
    [sub |-> decoded.sub, email |-> decoded.email, role |-> decoded.role,
     tenantId |-> decoded.tenantId, tenantSlug |-> decoded.tenantSlug,
     plan |-> decoded.plan]

NoDecoded ==
    [sub |-> 0, email |-> "", role |-> "", tenantId |-> 0, tenantSlug |-> "",
     plan |-> "", iat |-> 0, exp |-> 0]

\* jwt.verify(token, JWT_SECRET) at second t: the decoded payload, or the
\* error it throws (malformed, then signature, then expiry).
jwtVerify(token, t) ==
    IF Len(token) # 3
    THEN [ok |-> FALSE, error |-> "JsonWebTokenError: jwt malformed", decoded |-> NoDecoded]
    ELSE IF token[3] # Hmac(JWT_SECRET, token[1], token[2])
    THEN [ok |-> FALSE, error |-> "JsonWebTokenError: invalid signature", decoded |-> NoDecoded]
    ELSE IF t >= DecodePayload(token[2]).exp
    THEN [ok |-> FALSE, error |-> "TokenExpiredError: jwt expired", decoded |-> NoDecoded]
    ELSE [ok |-> TRUE, error |-> "", decoded |-> DecodePayload(token[2])]

\* No token: getItem('token') is null, the header carries none.
NoToken == <<>>

\* The Authorization header of a request: absent, or a scheme and a token.
NoHeader == [scheme |-> "", token |-> NoToken]

Bearer(token) == [scheme |-> "Bearer", token |-> token]

\* Mutant of requireAuth: the catch block reports an expired token as such.
requireAuthTellsExpiry(header, requiredRole, t) ==
    IF header.scheme # "Bearer"
    THEN [status |-> 401, error |-> "Unauthorized", auth |-> NoAuth]
    ELSE LET v == jwtVerify(header.token, t)
         IN  IF ~v.ok
             THEN [status |-> 401,
                   error |-> IF v.error = "TokenExpiredError: jwt expired"
                             THEN "Token expired" ELSE "Invalid token",
                   auth |-> NoAuth]
             ELSE IF ~RoleAllowed(v.decoded, requiredRole)
             THEN [status |-> 403, error |-> "Forbidden", auth |-> AuthOf(v.decoded)]
             ELSE [status |-> 0, error |-> "", auth |-> AuthOf(v.decoded)]

\* requireAuth(requiredRole) on a header at second t: the response it sends
\* (status 401 or 403), or status 0 and the claim it hands to the handler.
requireAuth(header, requiredRole, t) ==
    IF header.scheme # "Bearer"
    THEN [status |-> 401, error |-> "Unauthorized", auth |-> NoAuth]
    ELSE LET v == jwtVerify(header.token, t)
         IN  IF ~v.ok
             THEN [status |-> 401, error |-> "Invalid token", auth |-> NoAuth]
             ELSE IF ~RoleAllowed(v.decoded, requiredRole)
             THEN [status |-> 403, error |-> "Forbidden", auth |-> AuthOf(v.decoded)]
             ELSE [status |-> 0, error |-> "", auth |-> AuthOf(v.decoded)]

\* ---------------------------------------------------------------- browser

\* tenants.name of the seeded rows.
TenantName(slug) == IF slug = "acme" THEN "Acme Corporation" ELSE "Globex Corporation"

\* localStorage after clear(): every getItem gives null.
EmptyStorage ==
    [token |-> NoToken, email |-> Null, role |-> Null, tenantSlug |-> Null,
     tenantName |-> Null, plan |-> Null]

\* A fresh tab: nothing stored, the address bar at /, the Login page shown.
\* error, title, content, modal (showLimitModal), currentPlan are the state of
\* the rendered page, loaded says that its mount effect has run; awaiting is
\* the handler suspended at its request ("" if none), reply the response that
\* has arrived for it, stale says that the page that started it is gone.
FreshClient ==
    [storage |-> EmptyStorage, path |-> "/", page |-> "Login", error |-> Null,
     title |-> "", content |-> "", modal |-> FALSE, currentPlan |-> "free",
     loaded |-> FALSE, awaiting |-> "", reply |-> NoResp, stale |-> FALSE]

\* ------------------------------------------------------------------ Init

Init ==
    /\ plan = [t \in TenantIds |-> "free"]
    /\ users = SeedUsers
    /\ notes = {}
    /\ nextNoteId = 1
    /\ tokens = {}
    /\ inflight = EmptyBag
    /\ resp = NoResp
    /\ now = 0
    /\ jwts = {}
    /\ client = FreshClient

\* ------------------------------------------------------------ requireAuth

\* Mutant of AuthFail: the token is decoded without being verified, so the
\* upgrade handler runs on the forged claim of acme's admin.
AuthFailDecodeOnly(op, hdr) ==
    IF hdr = "invalidToken" /\ op = "upgrade"
    THEN /\ plan' = [plan EXCEPT ![1] = "pro"]
         /\ resp' = Reply(op, NoAuth, 0, "acme", 200, "", {})
         /\ UNCHANGED <<users, notes, nextNoteId, tokens, inflight>>
    ELSE /\ resp' = Reply(op, NoAuth, 0, "", 401,
                          IF hdr = "invalidToken" THEN "Invalid token" ELSE "Unauthorized", {})
         /\ UNCHANGED <<plan, users, notes, nextNoteId, tokens, inflight>>

\* A protected request with no header, a non-Bearer header or a token that
\* fails verification: answered 401 by the middleware, the handler is not run.
AuthFail(op, hdr) ==
    /\ resp' = Reply(op, NoAuth, 0, "", 401,
                     IF hdr = "invalidToken" THEN "Invalid token" ELSE "Unauthorized", {})
    /\ UNCHANGED <<plan, users, notes, nextNoteId, tokens, inflight>>

\* ------------------------------------------------------------------ login

UserByEmail(email) == {u \in users : u.email = email}

\* bcrypt.compare against the stored hash: every stored hash is of 'password'.
PasswordOk(password) == password = "password"

\* Mutant of LoginClaim: the plan of the claim is the plan new tenants start with.
LoginClaimDefaultPlan(user) ==
    [sub |-> user.id, email |-> user.email, role |-> user.role,
     tenantId |-> user.tenant_id, tenantSlug |-> Slug(user.tenant_id),
     plan |-> "free"]

\* The payload login signs: the user row and the tenant row read for it.
LoginClaim(user) ==
    [sub |-> user.id, email |-> user.email, role |-> user.role,
     tenantId |-> user.tenant_id, tenantSlug |-> Slug(user.tenant_id),
     plan |-> plan[user.tenant_id]]

\* Mutant of Login: an email that matches no user is reported as such.
LoginTellsUnknownEmail(email, password) ==
    /\ IF Falsy(email) \/ Falsy(password)
       THEN /\ resp' = Reply("login", NoAuth, 0, "", 400, "Email and password are required", {})
            /\ UNCHANGED tokens
       ELSE IF UserByEmail(email) = {}
       THEN /\ resp' = Reply("login", NoAuth, 0, "", 404, "User not found", {})
            /\ UNCHANGED tokens
       ELSE IF ~PasswordOk(password)
       THEN /\ resp' = Reply("login", NoAuth, 0, "", 401, "Invalid credentials", {})
            /\ UNCHANGED tokens
       ELSE LET user == CHOOSE u \in UserByEmail(email) : TRUE
                token == signToken(LoginClaim(user))
            IN  /\ tokens' = tokens \cup {token}
                /\ resp' = Reply("login", token, 0, "", 200, "", {})
    /\ UNCHANGED <<plan, users, notes, nextNoteId, inflight>>

\* POST /auth/login: validation, user lookup, password comparison, token.
Login(email, password) ==
    /\ IF Falsy(email) \/ Falsy(password)
       THEN /\ resp' = Reply("login", NoAuth, 0, "", 400, "Email and password are required", {})
            /\ UNCHANGED tokens
       ELSE IF UserByEmail(email) = {} \/ ~PasswordOk(password)
       THEN /\ resp' = Reply("login", NoAuth, 0, "", 401, "Invalid credentials", {})
            /\ UNCHANGED tokens
       ELSE LET user == CHOOSE u \in UserByEmail(email) : TRUE
                token == signToken(LoginClaim(user))
            IN  /\ tokens' = tokens \cup {token}
                /\ resp' = Reply("login", token, 0, "", 200, "", {})
    /\ UNCHANGED <<plan, users, notes, nextNoteId, inflight>>

\* ------------------------------------------------------- tenant endpoints

\* Mutant of SlugMismatch: the path slug is not compared with the claim.
SlugMismatchUnchecked(slug, auth) == FALSE

\* slug !== auth.tenantSlug
SlugMismatch(slug, auth) == slug # auth.tenantSlug

\* Mutant of Upgrade: the slug is compared before the role.
UpgradeSlugFirst(tok, slug) ==
    /\ Verified(tok)
    /\ IF SlugMismatch(slug, tok)
       THEN /\ resp' = Reply("upgrade", tok, 0, slug, 403,
                             "Forbidden: Cannot upgrade other tenants", {})
            /\ UNCHANGED plan
       ELSE IF ~RoleAllowed(tok, "admin")
       THEN /\ resp' = Reply("upgrade", tok, 0, slug, 403, "Forbidden", {})
            /\ UNCHANGED plan
       ELSE /\ plan' = [plan EXCEPT ![tok.tenantId] = "pro"]
            /\ resp' = Reply("upgrade", tok, 0, slug, 200, "", {})
    /\ UNCHANGED <<users, notes, nextNoteId, tokens, inflight>>

\* POST /tenants/:slug/upgrade: requireAuth('admin'), then the slug test,
\* then the UPDATE.
Upgrade(tok, slug) ==
    /\ Verified(tok)
    /\ IF ~RoleAllowed(tok, "admin")
       THEN /\ resp' = Reply("upgrade", tok, 0, slug, 403, "Forbidden", {})
            /\ UNCHANGED plan
       ELSE IF SlugMismatch(slug, tok)
       THEN /\ resp' = Reply("upgrade", tok, 0, slug, 403,
                             "Forbidden: Cannot upgrade other tenants", {})
            /\ UNCHANGED plan
       ELSE /\ plan' = [plan EXCEPT ![tok.tenantId] = "pro"]
            /\ resp' = Reply("upgrade", tok, 0, slug, 200, "", {})
    /\ UNCHANGED <<users, notes, nextNoteId, tokens, inflight>>

\* users.id is SERIAL: a new row gets an id above every id in the table.
NextUserId == 1 + CHOOSE m \in {u.id : u \in users} : \A u \in users : u.id <= m

\* Mutant of DuplicateEmail: users.email carries no UNIQUE constraint.
DuplicateEmailAllowed(email) == FALSE

\* The INSERT fails on users.email UNIQUE ('duplicate key value ...') exactly
\* when a stored user has the email.
DuplicateEmail(email) == UserByEmail(email) # {}

\* Mutant of Invite: the new user's tenant is looked up from the path slug,
\* and the slug is not compared with the claim.
InviteIntoSlugTenant(tok, slug, email, role) ==
    /\ Verified(tok)
    /\ IF ~RoleAllowed(tok, "admin")
       THEN /\ resp' = Reply("invite", tok, 0, slug, 403, "Forbidden", {})
            /\ UNCHANGED users
       ELSE IF Falsy(email) \/ role \notin {"admin", "member"}
       THEN /\ resp' = Reply("invite", tok, 0, slug, 400,
                             "Email and valid role are required", {})
            /\ UNCHANGED users
       ELSE IF DuplicateEmail(email)
       THEN /\ resp' = Reply("invite", tok, 0, slug, 409, "User already exists", {})
            /\ UNCHANGED users
       ELSE /\ users' = users \cup
                   {[id |-> NextUserId, email |-> email, role |-> role,
                     tenant_id |-> CHOOSE t \in TenantIds : Slug(t) = slug]}
            /\ resp' = Reply("invite", tok, 0, slug, 200, "", {})
    /\ UNCHANGED <<plan, notes, nextNoteId, tokens, inflight>>

\* POST /tenants/:slug/invite: requireAuth('admin'), the slug test, the body
\* validation, then the INSERT.
Invite(tok, slug, email, role) ==
    /\ Verified(tok)
    /\ IF ~RoleAllowed(tok, "admin")
       THEN /\ resp' = Reply("invite", tok, 0, slug, 403, "Forbidden", {})
            /\ UNCHANGED users
       ELSE IF SlugMismatch(slug, tok)
       THEN /\ resp' = Reply("invite", tok, 0, slug, 403,
                             "Forbidden: Cannot invite to other tenants", {})
            /\ UNCHANGED users
       ELSE IF Falsy(email) \/ role \notin {"admin", "member"}
       THEN /\ resp' = Reply("invite", tok, 0, slug, 400,
                             "Email and valid role are required", {})
            /\ UNCHANGED users
       ELSE IF DuplicateEmail(email)
       THEN /\ resp' = Reply("invite", tok, 0, slug, 409, "User already exists", {})
            /\ UNCHANGED users
       ELSE /\ users' = users \cup
                   {[id |-> NextUserId, email |-> email, role |-> role,
                     tenant_id |-> tok.tenantId]}
            /\ resp' = Reply("invite", tok, 0, slug, 200, "", {})
    /\ UNCHANGED <<plan, notes, nextNoteId, tokens, inflight>>

\* ------------------------------------------------------------ note reads

\* Mutant of NotesOfTenant: the WHERE tenant_id clause is missing.
NotesOfTenantUnscoped(ns, tenantId) == ns

\* SELECT ... FROM notes WHERE tenant_id = $1
NotesOfTenant(ns, tenantId) == {n \in ns : n.tenant_id = tenantId}

\* Mutant of NoteInTenant: the lookup goes by id alone.
NoteInTenantUnscoped(ns, id, tenantId) == {n \in ns : n.id = id}

\* SELECT ... FROM notes WHERE id = $1 AND tenant_id = $2
NoteInTenant(ns, id, tenantId) == {n \in ns : n.id = id /\ n.tenant_id = tenantId}

ListNotesReply(ns, auth) ==
    Reply("list", auth, 0, "", 200, "", {Row(n) : n \in NotesOfTenant(ns, auth.tenantId)})

\* Mutant of GetNoteReply: the note is looked up by id and a note of another
\* tenant is refused with 403.
GetNoteReplyLeaky(ns, auth, id) ==
    LET found == {n \in ns : n.id = id}
    IN  IF found = {}
        THEN Reply("get", auth, id, "", 404, "Note not found", {})
        ELSE IF \E n \in found : n.tenant_id # auth.tenantId
        THEN Reply("get", auth, id, "", 403, "Forbidden", {})
        ELSE Reply("get", auth, id, "", 200, "", {Row(n) : n \in found})

GetNoteReply(ns, auth, id) ==
    LET found == NoteInTenant(ns, id, auth.tenantId)
    IN  IF found = {}
        THEN Reply("get", auth, id, "", 404, "Note not found", {})
        ELSE Reply("get", auth, id, "", 200, "", {Row(n) : n \in found})

ListNotes(tok) ==
    /\ Verified(tok)
    /\ resp' = ListNotesReply(notes, tok)
    /\ UNCHANGED <<plan, users, notes, nextNoteId, tokens, inflight>>

GetNote(tok, id) ==
    /\ Verified(tok)
    /\ resp' = GetNoteReply(notes, tok, id)
    /\ UNCHANGED <<plan, users, notes, nextNoteId, tokens, inflight>>

\* ------------------------------------------------------------ POST /notes

\* Mutant of QuotaPlan: the plan is taken from the claim.
QuotaPlanFromClaim(auth) == auth.plan

\* The plan the quota decision goes by: SELECT plan FROM tenants WHERE id = $1.
QuotaPlan(auth) == plan[auth.tenantId]

\* Mutant of NoteCount: the count compares the wrong column with the tenant id.
NoteCountWrongColumn(tenantId) == Cardinality({n \in notes : n.user_id = tenantId})

\* Mutant of NoteCount: the count has no WHERE clause.
NoteCountAllTenants(tenantId) == Cardinality(notes)

\* SELECT COUNT(*) FROM notes WHERE tenant_id = $1
NoteCount(tenantId) == Cardinality(NotesOfTenant(notes, tenantId))

\* Mutant of LimitReached: noteCount > 3.
LimitReachedOffByOne(noteCount) == noteCount > FreeLimit

\* noteCount >= 3
LimitReached(noteCount) == noteCount >= FreeLimit

CreateInvalid(tok, title, content) ==
    /\ Verified(tok)
    /\ Falsy(title) \/ Falsy(content)
    /\ resp' = Reply("create", tok, 0, "", 400, "Title and content are required", {})
    /\ UNCHANGED <<plan, users, notes, nextNoteId, tokens, inflight>>

\* Validation passed; the tenant's plan is read.  A pro tenant goes straight
\* to the INSERT, a free one to the count.
CreateReadPlan(tok, title, content) ==
    /\ Verified(tok)
    /\ ~(Falsy(title) \/ Falsy(content))
    /\ inflight' = Suspend(Request("create",
                                   IF QuotaPlan(tok) = "free" THEN "count" ELSE "insert",
                                   tok, 0, title, content, QuotaPlan(tok)))
    /\ resp' = NoResp
    /\ UNCHANGED <<plan, users, notes, nextNoteId, tokens>>

\* tenant.plan === 'free': the tenant's notes are counted.
CreateCount(r) ==
    /\ r.op = "create" /\ r.pc = "count"
    /\ IF LimitReached(NoteCount(r.auth.tenantId))
       THEN /\ resp' = Reply("create", r.auth, 0, "", 402, "note_limit_reached", {})
            /\ inflight' = Resume(r)
       ELSE /\ resp' = NoResp
            /\ inflight' = Resume(r) (+) SetToBag({[r EXCEPT !.pc = "insert"]})
    /\ UNCHANGED <<plan, users, notes, nextNoteId, tokens>>

CreateInsert(r) ==
    /\ r.op = "create" /\ r.pc = "insert"
    /\ LET n == [id |-> nextNoteId, tenant_id |-> r.auth.tenantId,
                 user_id |-> r.auth.sub, title |-> r.title, content |-> r.content,
                 created_at |-> now, updated_at |-> now]
       IN  /\ notes' = notes \cup {n}
           /\ resp' = Reply("create", r.auth, n.id, "", 201, "", {Row(n)})
    /\ nextNoteId' = nextNoteId + 1
    /\ inflight' = Resume(r)
    /\ UNCHANGED <<plan, users, tokens>>

\* ------------------------------------------- PUT and DELETE /notes/:id

\* Mutant of NotOwner: the ownership test is missing.
NotOwnerUnchecked(auth, note) == FALSE

\* auth.role === 'member' && note.user_id !== auth.sub
NotOwner(auth, note) == auth.role = "member" /\ note.user_id # auth.sub

\* The reply of the lookup that opens PUT and DELETE, NoResp if it lets the
\* request through to its write.
LookupReply(op, ns, auth, id) ==
    LET found == NoteInTenant(ns, id, auth.tenantId)
    IN  IF found = {}
        THEN Reply(op, auth, id, "", 404, "Note not found", {})
        ELSE IF \E n \in found : NotOwner(auth, n)
        THEN Reply(op, auth, id, "", 403,
                   IF op = "put" THEN "Forbidden: You can only edit your own notes"
                   ELSE "Forbidden: You can only delete your own notes", {})
        ELSE NoResp

PutSelect(tok, id, title, content) ==
    /\ Verified(tok)
    /\ resp' = LookupReply("put", notes, tok, id)
    /\ inflight' = IF resp' = NoResp
                   THEN Suspend(Request("put", "update", tok, id, title, content, ""))
                   ELSE inflight
    /\ UNCHANGED <<plan, users, notes, nextNoteId, tokens>>

\* Mutant of Coalesce: the column is set to the parameter as it is.
CoalesceOverwrite(new, old) == new

\* COALESCE($1, column)
Coalesce(new, old) == IF new = Null THEN old ELSE new

\* Mutant of PutUpdate: the UPDATE also sets created_at = NOW().
PutUpdateResetsCreatedAt(r) ==
    /\ r.op = "put" /\ r.pc = "update"
    /\ LET hit == {n \in notes : n.id = r.id}
           upd(n) == [n EXCEPT !.title = Coalesce(r.title, n.title),
                               !.content = Coalesce(r.content, n.content),
                               !.created_at = now, !.updated_at = now]
       IN  /\ notes' = (notes \ hit) \cup {upd(n) : n \in hit}
           /\ resp' = Reply("put", r.auth, r.id, "", 200, "", {Row(upd(n)) : n \in hit})
    /\ inflight' = Resume(r)
    /\ UNCHANGED <<plan, users, nextNoteId, tokens>>

\* UPDATE notes SET ... WHERE id = $3 RETURNING ...: no row is hit, and the
\* body is empty, when the note was deleted since the lookup.
PutUpdate(r) ==
    /\ r.op = "put" /\ r.pc = "update"
    /\ LET hit == {n \in notes : n.id = r.id}
           upd(n) == [n EXCEPT !.title = Coalesce(r.title, n.title),
                               !.content = Coalesce(r.content, n.content),
                               !.updated_at = now]
       IN  /\ notes' = (notes \ hit) \cup {upd(n) : n \in hit}
           /\ resp' = Reply("put", r.auth, r.id, "", 200, "", {Row(upd(n)) : n \in hit})
    /\ inflight' = Resume(r)
    /\ UNCHANGED <<plan, users, nextNoteId, tokens>>

DeleteSelect(tok, id) ==
    /\ Verified(tok)
    /\ resp' = LookupReply("delete", notes, tok, id)
    /\ inflight' = IF resp' = NoResp
                   THEN Suspend(Request("delete", "delete", tok, id, Null, Null, ""))
                   ELSE inflight
    /\ UNCHANGED <<plan, users, notes, nextNoteId, tokens>>

\* DELETE FROM notes WHERE id = $1
DeleteExec(r) ==
    /\ r.op = "delete" /\ r.pc = "delete"
    /\ notes' = {n \in notes : n.id # r.id}
    /\ resp' = Reply("delete", r.auth, r.id, "", 200, "", {})
    /\ inflight' = Resume(r)
    /\ UNCHANGED <<plan, users, nextNoteId, tokens>>

\* The response has left the server.
Deliver ==
    /\ resp # NoResp
    /\ resp' = NoResp
    /\ UNCHANGED <<plan, users, notes, nextNoteId, tokens, inflight>>

\* --------------------------------------------------------- bounding guards

\* The server takes a step once its last response has left.
Ready == resp = NoResp


\* Login may issue a token while fewer than MaxTokens distinct ones exist.
TokenRoom == Cardinality(tokens') <= MaxTokens

\* A multi-statement request may start while fewer than n are in flight.
SlotRoom(n) == BagCardinality(inflight) < n

CreatesInFlight ==
    LET cs == {r \in Pending : r.op = "create"}
    IN  IF cs = {} THEN 0 ELSE BagCardinality([r \in cs |-> inflight[r]])

\* A create may start while the ids up to n cover it and the creates in flight.
IdRoom(n) == nextNoteId + CreatesInFlight <= n

\* ------------------------------------------------------------------- Spec
\* Every handler of the API; one multi-statement request in flight at a time,
\* the single-statement requests interleaving with it.

Next ==
    \/ \E op \in ProtectedOps, hdr \in BadHeaders : Ready /\ AuthFail(op, hdr) /\ UNCHANGED ext
    \/ \E email \in LoginEmails, password \in PasswordInputs :
          Ready /\ Login(email, password) /\ TokenRoom /\ UNCHANGED ext
    \/ \E tok \in tokens, slug \in Slugs : Ready /\ Upgrade(tok, slug) /\ UNCHANGED ext
    \/ \E tok \in tokens, slug \in Slugs, email \in InviteEmails, role \in RoleInputs :
          Ready /\ Invite(tok, slug, email, role) /\ UNCHANGED ext
    \/ \E tok \in tokens : Ready /\ ListNotes(tok) /\ UNCHANGED ext
    \/ \E tok \in tokens, id \in 1..MaxNotes : Ready /\ GetNote(tok, id) /\ UNCHANGED ext
    \/ \E tok \in tokens, title \in CreateTitles, content \in CreateContents :
          Ready /\ CreateInvalid(tok, title, content) /\ UNCHANGED ext
    \/ \E tok \in tokens, title \in CreateTitles, content \in CreateContents :
          Ready /\ SlotRoom(SeqInflight) /\ IdRoom(MaxNotes) /\ CreateReadPlan(tok, title, content) /\ UNCHANGED ext
    \/ \E r \in Pending : Ready /\ CreateCount(r) /\ UNCHANGED ext
    \/ \E r \in Pending : Ready /\ CreateInsert(r) /\ UNCHANGED ext
    \/ \E tok \in tokens, id \in 1..MaxNotes, title \in PutTitles, content \in PutContents :
          Ready /\ SlotRoom(SeqInflight) /\ PutSelect(tok, id, title, content) /\ UNCHANGED ext
    \/ \E r \in Pending : Ready /\ PutUpdate(r) /\ UNCHANGED ext
    \/ \E tok \in tokens, id \in 1..MaxNotes :
          Ready /\ SlotRoom(SeqInflight) /\ DeleteSelect(tok, id) /\ UNCHANGED ext
    \/ \E r \in Pending : Ready /\ DeleteExec(r) /\ UNCHANGED ext
    \/ Deliver /\ UNCHANGED ext

Spec == Init /\ [][Next]_vars

\* -------------------------------------------------------------- SpecNotes
\* The notes CRUD handlers with MaxInflight multi-statement requests
\* interleaving statement by statement.

NextNotes ==
    \/ \E email \in LoginEmails, password \in PasswordInputs :
          Ready /\ Login(email, password) /\ TokenRoom /\ UNCHANGED ext
    \/ \E tok \in tokens, title \in CreateTitles, content \in CreateContents :
          Ready /\ CreateInvalid(tok, title, content) /\ UNCHANGED ext
    \/ \E tok \in tokens : Ready /\ ListNotes(tok) /\ UNCHANGED ext
    \/ \E tok \in tokens, id \in 1..CrudMaxNotes : Ready /\ GetNote(tok, id) /\ UNCHANGED ext
    \/ \E tok \in tokens, title \in CreateTitles, content \in CreateContents :
          Ready /\ SlotRoom(MaxInflight) /\ IdRoom(CrudMaxNotes)
                /\ CreateReadPlan(tok, title, content) /\ UNCHANGED ext
    \/ \E r \in Pending : Ready /\ CreateCount(r) /\ UNCHANGED ext
    \/ \E r \in Pending : Ready /\ CreateInsert(r) /\ UNCHANGED ext
    \/ \E tok \in tokens, id \in 1..CrudMaxNotes, title \in PutTitles, content \in PutContents :
          Ready /\ SlotRoom(MaxInflight) /\ PutSelect(tok, id, title, content) /\ UNCHANGED ext
    \/ \E r \in Pending : Ready /\ PutUpdate(r) /\ UNCHANGED ext
    \/ \E tok \in tokens, id \in 1..CrudMaxNotes :
          Ready /\ SlotRoom(MaxInflight) /\ DeleteSelect(tok, id) /\ UNCHANGED ext
    \/ \E r \in Pending : Ready /\ DeleteExec(r) /\ UNCHANGED ext
    \/ Deliver /\ UNCHANGED ext

SpecNotes == Init /\ [][NextNotes]_vars

\* -------------------------------------------------------------- SpecQuota
\* The handlers that decide or change a tenant's plan and note count, with
\* MaxInflight multi-statement requests interleaving statement by statement.

NextQuota ==
    \/ \E email \in LoginEmails, password \in PasswordInputs :
          Ready /\ Login(email, password) /\ TokenRoom /\ UNCHANGED ext
    \/ \E tok \in tokens, slug \in Slugs : Ready /\ Upgrade(tok, slug) /\ UNCHANGED ext
    \/ \E tok \in tokens : Ready /\ ListNotes(tok) /\ UNCHANGED ext
    \/ \E tok \in tokens, title \in CreateTitles, content \in CreateContents :
          Ready /\ SlotRoom(MaxInflight) /\ IdRoom(QuotaMaxNotes)
                /\ CreateReadPlan(tok, title, content) /\ UNCHANGED ext
    \/ \E r \in Pending : Ready /\ CreateCount(r) /\ UNCHANGED ext
    \/ \E r \in Pending : Ready /\ CreateInsert(r) /\ UNCHANGED ext
    \/ \E tok \in tokens, id \in 1..QuotaMaxNotes :
          Ready /\ SlotRoom(MaxInflight) /\ DeleteSelect(tok, id) /\ UNCHANGED ext
    \/ \E r \in Pending : Ready /\ DeleteExec(r) /\ UNCHANGED ext
    \/ Deliver /\ UNCHANGED ext

SpecQuota == Init /\ [][NextQuota]_vars

\* -------------------------------------------------------- SpecQuotaSerial
\* SpecQuota and PUT (with an empty body, which leaves every column the
\* model holds as it is), under the schedule in which no two creations of one
\* tenant overlap between their count and their INSERT: a creation counts only
\* while no other creation of its tenant has counted and not yet inserted.

CountedNotInserted(tenantId) ==
    {q \in Pending : /\ q.op = "create" /\ q.pc = "insert" /\ q.tplan = "free"
                     /\ q.auth.tenantId = tenantId}

NextQuotaSerial ==
    \/ \E email \in LoginEmails, password \in PasswordInputs :
          Ready /\ Login(email, password) /\ TokenRoom /\ UNCHANGED ext
    \/ \E tok \in tokens, slug \in Slugs : Ready /\ Upgrade(tok, slug) /\ UNCHANGED ext
    \/ \E tok \in tokens : Ready /\ ListNotes(tok) /\ UNCHANGED ext
    \/ \E tok \in tokens, title \in CreateTitles, content \in CreateContents :
          Ready /\ SlotRoom(MaxInflight) /\ IdRoom(QuotaMaxNotes)
                /\ CreateReadPlan(tok, title, content) /\ UNCHANGED ext
    \/ \E r \in Pending :
          Ready /\ CountedNotInserted(r.auth.tenantId) = {} /\ CreateCount(r) /\ UNCHANGED ext
    \/ \E r \in Pending : Ready /\ CreateInsert(r) /\ UNCHANGED ext
    \/ \E tok \in tokens, id \in 1..QuotaMaxNotes :
          Ready /\ SlotRoom(MaxInflight) /\ PutSelect(tok, id, Null, Null) /\ UNCHANGED ext
    \/ \E r \in Pending : Ready /\ PutUpdate(r) /\ UNCHANGED ext
    \/ \E tok \in tokens, id \in 1..QuotaMaxNotes :
          Ready /\ SlotRoom(MaxInflight) /\ DeleteSelect(tok, id) /\ UNCHANGED ext
    \/ \E r \in Pending : Ready /\ DeleteExec(r) /\ UNCHANGED ext
    \/ Deliver /\ UNCHANGED ext

SpecQuotaSerial == Init /\ [][NextQuotaSerial]_vars

\* -------------------------------------------------------------- SpecToken
\* Login, a read and the upgrade with the tokens as they go over the wire and
\* the clock: the middleware verifies the header's token at the second the
\* request arrives.

\* A token that is not a JWS, an issued token whose expiry was pushed out
\* without the secret, and an issued token re-signed under another key.
Malformed == <<"garbage">>

ForgedExpiry(j) == <<j[1], [j[2] EXCEPT ![8] = @ + MaxClock + 1], j[3]>>

WrongKey(j) == <<j[1], j[2], Hmac("guess", j[1], j[2])>>

Headers ==
    {NoHeader, [scheme |-> "Basic", token |-> Malformed], Bearer(Malformed)}
        \cup {Bearer(j) : j \in jwts}
        \cup {Bearer(ForgedExpiry(j)) : j \in jwts}
        \cup {Bearer(WrongKey(j)) : j \in jwts}

Tick ==
    /\ now < MaxClock
    /\ now' = now + 1
    /\ UNCHANGED <<plan, users, notes, nextNoteId, tokens, inflight, resp, jwts, client>>

\* POST /auth/login at second now: the token in the response body is signed
\* with iat = now.
LoginIssue(email, password) ==
    /\ Login(email, password)
    /\ jwts' = IF resp'.status = 200 THEN jwts \cup {jwtSign(resp'.auth, now)} ELSE jwts

LoginAt(email, password) == LoginIssue(email, password) /\ UNCHANGED <<now, client>>

JwtRoom == Cardinality(jwts') <= MaxJwts

\* GET /notes with the given Authorization header at second now.
GuardedList(header) ==
    LET a == requireAuth(header, "", now)
    IN  IF a.status # 0
        THEN /\ resp' = Reply("list", a.auth, 0, "", a.status, a.error, {})
             /\ UNCHANGED <<plan, users, notes, nextNoteId, tokens, inflight>>
        ELSE ListNotes(a.auth)

AuthList(header) == GuardedList(header) /\ UNCHANGED ext

\* POST /tenants/:slug/upgrade with the given Authorization header at second now.
GuardedUpgrade(header, slug) ==
    LET a == requireAuth(header, "admin", now)
    IN  IF a.status # 0
        THEN /\ resp' = Reply("upgrade", a.auth, 0, slug, a.status, a.error, {})
             /\ UNCHANGED <<plan, users, notes, nextNoteId, tokens, inflight>>
        ELSE Upgrade(a.auth, slug)

AuthUpgrade(header, slug) == GuardedUpgrade(header, slug) /\ UNCHANGED ext

\* POST /notes with the given Authorization header at second now, up to its
\* first statement.
GuardedCreate(header, title, content) ==
    LET a == requireAuth(header, "", now)
    IN  IF a.status # 0
        THEN /\ resp' = Reply("create", a.auth, 0, "", a.status, a.error, {})
             /\ UNCHANGED <<plan, users, notes, nextNoteId, tokens, inflight>>
        ELSE IF Falsy(title) \/ Falsy(content)
        THEN CreateInvalid(a.auth, title, content)
        ELSE CreateReadPlan(a.auth, title, content)

NextToken ==
    \/ Tick
    \/ \E email \in LoginEmails, password \in PasswordInputs :
          LoginAt(email, password) /\ TokenRoom /\ JwtRoom
    \/ \E header \in Headers : AuthList(header)
    \/ \E header \in Headers, slug \in Slugs : AuthUpgrade(header, slug)

SpecToken == Init /\ [][NextToken]_vars

\* --------------------------------------------------------- SpecProvenance
\* The notes CRUD handlers with the clock that NOW() reads; one
\* multi-statement request in flight at a time.

TickReady == Ready /\ now < ProvMaxClock /\ Tick

NextProvenance ==
    \/ TickReady
    \/ \E email \in LoginEmails, password \in PasswordInputs :
          Ready /\ Login(email, password) /\ TokenRoom /\ UNCHANGED ext
    \/ \E tok \in tokens : Ready /\ ListNotes(tok) /\ UNCHANGED ext
    \/ \E tok \in tokens, title \in CreateTitles, content \in CreateContents :
          Ready /\ SlotRoom(SeqInflight) /\ IdRoom(CrudMaxNotes)
                /\ CreateReadPlan(tok, title, content) /\ UNCHANGED ext
    \/ \E r \in Pending : Ready /\ CreateCount(r) /\ UNCHANGED ext
    \/ \E r \in Pending : Ready /\ CreateInsert(r) /\ UNCHANGED ext
    \/ \E tok \in tokens, id \in 1..CrudMaxNotes, title \in PutTitles, content \in PutContents :
          Ready /\ SlotRoom(SeqInflight) /\ PutSelect(tok, id, title, content) /\ UNCHANGED ext
    \/ \E r \in Pending : Ready /\ PutUpdate(r) /\ UNCHANGED ext
    \/ \E tok \in tokens, id \in 1..CrudMaxNotes :
          Ready /\ SlotRoom(SeqInflight) /\ DeleteSelect(tok, id) /\ UNCHANGED ext
    \/ \E r \in Pending : Ready /\ DeleteExec(r) /\ UNCHANGED ext
    \/ Deliver /\ UNCHANGED ext

SpecProvenance == Init /\ [][NextProvenance]_vars

\* ------------------------------------------------------------- SpecClient
\* One browser tab against the backend: the router, the Login page and the
\* Notes page's mount effect and sign-out.  A handler of the page runs to
\* completion with the request it makes.

Paths == {"/", "/notes", "/settings"}

\* isAuthenticated(): !!localStorage.getItem('token')
isAuthenticated(storage) == storage.token # NoToken

\* Mutant of RouteElement: ProtectedRoute renders its children without the test.
RouteElementUnprotected(path, storage) ==
    IF path = "/" THEN (IF isAuthenticated(storage) THEN "Navigate" ELSE "Login")
    ELSE IF path = "/notes" THEN "Notes"
    ELSE "Navigate"

\* What <Routes> renders at a path: the Login page, the Notes page, or a
\* <Navigate> (PublicRoute, ProtectedRoute, the catch-all route).
RouteElement(path, storage) ==
    IF path = "/" THEN (IF isAuthenticated(storage) THEN "Navigate" ELSE "Login")
    ELSE IF path = "/notes" THEN (IF ~isAuthenticated(storage) THEN "Navigate" ELSE "Notes")
    ELSE "Navigate"

\* The target of the <Navigate> rendered at a path.
NavigateTo(path, storage) ==
    IF path = "/" THEN "/notes"
    ELSE IF path = "/notes" THEN "/"
    ELSE IF isAuthenticated(storage) THEN "/notes" ELSE "/"

\* A page mounts: its state is the initial one, and a handler of the page
\* before it that is still suspended goes on without a page.
Mounted(c) ==
    [c EXCEPT !.error = Null, !.title = "", !.content = "", !.modal = FALSE,
              !.currentPlan = "free", !.loaded = FALSE, !.stale = (c.awaiting # "")]

\* navigate(path): the location changes and the matching route renders; a
\* navigate to the location and page already shown changes nothing.
Navigated(c, path) ==
    IF path = c.path /\ RouteElement(path, c.storage) = c.page
    THEN c
    ELSE [Mounted(c) EXCEPT !.path = path, !.page = RouteElement(path, c.storage)]

\* setError of a handler: without effect once the handler's page is gone.
SetError(c, stale, message) == IF stale THEN c ELSE [c EXCEPT !.error = message]

\* getAuthHeaders()
getAuthHeaders(storage) ==
    IF storage.token # NoToken THEN Bearer(storage.token) ELSE NoHeader

\* err.message?.toLowerCase().includes('unauthorized'), over the messages the
\* backend sends.
MentionsUnauthorized(message) == message = "Unauthorized"

\* Mutant of LoggedOut: only the token is removed.
LoggedOutKeepsFields(c) == Navigated([c EXCEPT !.storage.token = NoToken], "/")

\* handleLogout: logout() clears localStorage, then navigate('/').
LoggedOut(c) == Navigated([c EXCEPT !.storage = EmptyStorage], "/")

\* The user opens a URL: the application loads and renders the route; the
\* handlers of the document before it are gone.
Visit(path) ==
    /\ client' = [Mounted(client) EXCEPT !.path = path,
                                        !.page = RouteElement(path, client.storage),
                                        !.awaiting = "", !.reply = NoResp,
                                        !.stale = FALSE]
    /\ UNCHANGED <<plan, users, notes, nextNoteId, tokens, inflight, resp, now, jwts>>

\* The effect of a rendered <Navigate to=... replace />.
FollowNavigate ==
    /\ client.page = "Navigate"
    /\ client' = Navigated(client, NavigateTo(client.path, client.storage))
    /\ UNCHANGED <<plan, users, notes, nextNoteId, tokens, inflight, resp, now, jwts>>

\* Login page, handleSubmit: the form's test, POST /auth/login, then the
\* session is stored and the router goes to /notes, or the error is shown.
SubmitLogin(email, password) ==
    /\ client.page = "Login"
    /\ IF Falsy(email) \/ Falsy(password)
       THEN /\ client' = [client EXCEPT !.error = "Please enter both email and password"]
            /\ UNCHANGED <<plan, users, notes, nextNoteId, tokens, inflight, resp, jwts>>
       ELSE /\ LoginIssue(email, password)
            /\ client' =
                 IF resp'.status = 200
                 THEN Navigated(
                        [client EXCEPT
                           !.error = Null,
                           !.storage = [token |-> jwtSign(resp'.auth, now),
                                        email |-> resp'.auth.email,
                                        role |-> resp'.auth.role,
                                        tenantSlug |-> resp'.auth.tenantSlug,
                                        tenantName |-> TenantName(resp'.auth.tenantSlug),
                                        plan |-> resp'.auth.plan]],
                        "/notes")
                 ELSE [client EXCEPT !.error = resp'.error]
    /\ UNCHANGED now

\* loadNotes after its request: an error whose message mentions
\* 'unauthorized' logs out, any other error is shown.
AfterLoadNotes(c, stale, reply) ==
    IF reply.status = 200 THEN SetError(c, stale, Null)
    ELSE IF MentionsUnauthorized(reply.error) THEN LoggedOut(c)
    ELSE SetError(c, stale, reply.error)

\* Notes page, the mount effect: without a token navigate('/'), else the
\* displayed plan is the stored one and loadNotes() sends GET /notes.
NotesMount ==
    /\ client.page = "Notes" /\ ~client.loaded
    /\ IF ~isAuthenticated(client.storage)
       THEN /\ client' = Navigated(client, "/")
            /\ UNCHANGED <<plan, users, notes, nextNoteId, tokens, inflight, resp>>
       ELSE /\ GuardedList(getAuthHeaders(client.storage))
            /\ client' = AfterLoadNotes(
                   [client EXCEPT !.loaded = TRUE,
                                  !.currentPlan = IF client.storage.plan = Null
                                                  THEN "free" ELSE client.storage.plan],
                   FALSE, resp')
    /\ UNCHANGED <<now, jwts>>

\* Notes page, the Refresh button: loadNotes().
Refresh ==
    /\ client.page = "Notes" /\ client.loaded
    /\ GuardedList(getAuthHeaders(client.storage))
    /\ client' = AfterLoadNotes(client, FALSE, resp')
    /\ UNCHANGED <<now, jwts>>

\* Notes page, the Sign Out button: handleLogout.
SignOut ==
    /\ client.page = "Notes"
    /\ client' = LoggedOut(client)
    /\ UNCHANGED <<plan, users, notes, nextNoteId, tokens, inflight, resp, now, jwts>>

NextClient ==
    \/ Tick
    \/ \E path \in Paths : Visit(path)
    \/ FollowNavigate
    \/ \E email \in LoginEmails, password \in PasswordInputs :
          SubmitLogin(email, password) /\ TokenRoom /\ JwtRoom
    \/ NotesMount
    \/ Refresh
    \/ SignOut

SpecClient == Init /\ [][NextClient]_vars

\* ------------------------------------------------------------ SpecSession
\* The Notes page at work: the create form, the limit notice and the upgrade,
\* with the server handling what the page sends.  A handler of the page is
\* suspended at its request and goes on when the response is there; meanwhile
\* the user may type, sign out, reload, and seconds pass.  One handler is
\* suspended at a time.

SessionMaxClock == 2
SessionMaxNotes == 4
SessionMaxJwts == 1

TypedTitles == {" ", " t1 "}

TypedContents == {" ", "c1"}

\* String.prototype.trim on the texts above.
Trim(text) ==
    IF text = " " THEN ""
    ELSE IF text = " t1 " THEN "t1"
    ELSE text

\* isLoading of the rendered page: one of its handlers is suspended.
isLoading(c) == c.awaiting # "" /\ ~c.stale

\* apiRequest: what a response becomes; a status outside 2xx is thrown as an
\* Error with the status, the code data.error and the message data.error.
ApiResult(reply) ==
    [ok |-> reply.status \in 200..299, status |-> reply.status,
     code |-> reply.error, message |-> reply.error]

\* Mutant of createNote: the error of apiRequest is rethrown as it is.
createNoteRethrows(reply) == ApiResult(reply)

\* createNote: an error with status 402 or code note_limit_reached is
\* rethrown with the code NOTE_LIMIT.
createNote(reply) ==
    LET r == ApiResult(reply)
    IN  IF ~r.ok /\ (r.status = 402 \/ r.code = "note_limit_reached")
        THEN [r EXCEPT !.code = "NOTE_LIMIT"]
        ELSE r

SessionTick == now < SessionMaxClock /\ Tick

SessionJwtRoom == Cardinality(jwts') <= SessionMaxJwts

\* The user edits the title and the content fields.
TypeNote(title, content) ==
    /\ client.page = "Notes" /\ client.loaded
    /\ client' = [client EXCEPT !.title = title, !.content = content]
    /\ UNCHANGED <<plan, users, notes, nextNoteId, tokens, inflight, resp, now, jwts>>

\* The Create Note button, enabled unless isLoading or the trimmed title is
\* empty: handleCreateNote up to its request, which the server takes up.
ClickCreate ==
    /\ client.page = "Notes" /\ client.loaded
    /\ client.awaiting = "" /\ inflight = EmptyBag
    /\ ~isLoading(client) /\ ~Falsy(Trim(client.title))
    /\ GuardedCreate(getAuthHeaders(client.storage), Trim(client.title),
                     Trim(client.content))
    /\ client' = [client EXCEPT !.error = Null, !.awaiting = "create",
                                !.reply = resp', !.stale = FALSE]
    /\ UNCHANGED <<now, jwts>>

\* The response of a statement of the server reaches the handler that waits
\* for it.
Answered(c, reply) ==
    IF c.awaiting = "create" /\ c.reply = NoResp THEN [c EXCEPT !.reply = reply] ELSE c

ServeCount(r) ==
    /\ CreateCount(r)
    /\ client' = Answered(client, resp')
    /\ UNCHANGED <<now, jwts>>

ServeInsert(r) ==
    /\ CreateInsert(r)
    /\ client' = Answered(client, resp')
    /\ UNCHANGED <<now, jwts>>

\* handleCreateNote after createNote has settled: on success the fields are
\* cleared and loadNotes() follows; the code NOTE_LIMIT opens the limit
\* notice, any other error is shown.
AfterCreate(c, reply) ==
    LET r == createNote(reply)
    IN  IF r.ok
        THEN [(IF c.stale THEN c ELSE [c EXCEPT !.title = "", !.content = ""])
                 EXCEPT !.awaiting = "loadNotes", !.reply = NoResp]
        ELSE IF c.stale THEN [c EXCEPT !.awaiting = "", !.reply = NoResp, !.stale = FALSE]
        ELSE IF r.code = "NOTE_LIMIT"
        THEN [c EXCEPT !.modal = TRUE, !.awaiting = "", !.reply = NoResp]
        ELSE [c EXCEPT !.error = r.message, !.awaiting = "", !.reply = NoResp]

SettleCreate ==
    /\ client.awaiting = "create" /\ client.reply # NoResp
    /\ client' = AfterCreate(client, client.reply)
    /\ UNCHANGED <<plan, users, notes, nextNoteId, tokens, inflight, resp, now, jwts>>

\* handleCreateNote, the loadNotes() after a successful create.
ReloadNotes ==
    /\ client.awaiting = "loadNotes"
    /\ GuardedList(getAuthHeaders(client.storage))
    /\ client' = [AfterLoadNotes(client, client.stale, resp')
                   EXCEPT !.awaiting = "", !.stale = FALSE]
    /\ UNCHANGED <<now, jwts>>

\* The Learn More button of the upgrade banner, shown to an admin while the
\* displayed plan is free.
LearnMore ==
    /\ client.page = "Notes" /\ client.loaded
    /\ client.currentPlan = "free" /\ client.storage.role = "admin"
    /\ client' = [client EXCEPT !.modal = TRUE]
    /\ UNCHANGED <<plan, users, notes, nextNoteId, tokens, inflight, resp, now, jwts>>

\* The Close button of the limit notice.
CloseModal ==
    /\ client.page = "Notes" /\ client.modal
    /\ client' = [client EXCEPT !.modal = FALSE]
    /\ UNCHANGED <<plan, users, notes, nextNoteId, tokens, inflight, resp, now, jwts>>

\* The Upgrade to Pro button: in the limit notice, for the stored role admin,
\* enabled unless isLoading.
UpgradeOffered(c) ==
    c.page = "Notes" /\ c.modal /\ c.storage.role = "admin" /\ ~isLoading(c)

\* handleUpgrade up to its request, which the server handles.
ClickUpgrade ==
    /\ UpgradeOffered(client) /\ client.awaiting = ""
    /\ GuardedUpgrade(getAuthHeaders(client.storage), client.storage.tenantSlug)
    /\ client' = [client EXCEPT !.error = Null, !.awaiting = "upgrade",
                                !.reply = resp', !.stale = FALSE]
    /\ UNCHANGED <<now, jwts>>

\* Mutant of AfterUpgrade: the plan is set and the notice closed whatever the
\* outcome.
AfterUpgradeOptimistic(c, reply) ==
    LET r == ApiResult(reply)
        d == [c EXCEPT !.storage.plan = "pro", !.awaiting = "", !.reply = NoResp,
                       !.stale = FALSE]
    IN  IF c.stale THEN d
        ELSE IF r.ok THEN [d EXCEPT !.currentPlan = "pro", !.modal = FALSE]
        ELSE [d EXCEPT !.currentPlan = "pro", !.modal = FALSE, !.error = r.message]

\* handleUpgrade after upgradeTenant has settled: on success the stored and
\* the displayed plan become pro and the notice closes, an error is shown.
AfterUpgrade(c, reply) ==
    LET r == ApiResult(reply)
        d == [c EXCEPT !.awaiting = "", !.reply = NoResp, !.stale = FALSE]
    IN  IF r.ok
        THEN IF c.stale THEN [d EXCEPT !.storage.plan = "pro"]
             ELSE [d EXCEPT !.storage.plan = "pro", !.currentPlan = "pro",
                            !.modal = FALSE]
        ELSE IF c.stale THEN d ELSE [d EXCEPT !.error = r.message]

SettleUpgrade ==
    /\ client.awaiting = "upgrade" /\ client.reply # NoResp
    /\ client' = AfterUpgrade(client, client.reply)
    /\ UNCHANGED <<plan, users, notes, nextNoteId, tokens, inflight, resp, now, jwts>>

NextSession ==
    \/ SessionTick
    \/ \E path \in Paths : Visit(path)
    \/ FollowNavigate
    \/ \E email \in LoginEmails, password \in PasswordInputs :
          SubmitLogin(email, password) /\ TokenRoom /\ SessionJwtRoom
    \/ NotesMount
    \/ Refresh
    \/ SignOut
    \/ \E title \in TypedTitles, content \in TypedContents : TypeNote(title, content)
    \/ ClickCreate /\ IdRoom(SessionMaxNotes)
    \/ \E r \in Pending : ServeCount(r)
    \/ \E r \in Pending : ServeInsert(r)
    \/ SettleCreate
    \/ ReloadNotes
    \/ LearnMore
    \/ CloseModal
    \/ ClickUpgrade
    \/ SettleUpgrade

SpecSession == Init /\ [][NextSession]_vars

\* ================================================================= claims

\* The pending request whose statement this step ran.
Acted(r) == r \in Pending /\ CopiesIn(r, inflight') < CopiesIn(r, inflight)

\* This step ran the first statement of a request and left it pending as r.
Arrived(r) ==
    /\ CopiesIn(r, inflight') > CopiesIn(r, inflight)
    /\ \A q \in Pending : ~Acted(q)

\* This step ran the first statement of some request (a read or a lookup).
FirstStatement == \A q \in Pending : ~Acted(q)

TenantNotes(t) == {n \in notes : n.tenant_id = t}

\* C1: a 200 reply to GET /notes carries exactly the rows of the stored notes
\* of the claim's tenant, a 200 reply to GET /notes/:id carries the row of the
\* stored note with that id and the claim's tenant, and no reply of any
\* endpoint carries a row of a note stored under another tenant.
C1_TenantIsolatedReads ==
    /\ resp.op = "list" /\ resp.status = 200 =>
          /\ resp.auth \in tokens
          /\ resp.rows = {Row(n) : n \in TenantNotes(resp.auth.tenantId)}
    /\ resp.op = "get" /\ resp.status = 200 =>
          /\ resp.auth \in tokens
          /\ \E n \in notes : /\ n.id = resp.id
                              /\ n.tenant_id = resp.auth.tenantId
                              /\ resp.rows = {Row(n)}
    /\ \A row \in resp.rows : \A n \in notes :
          n.id = row.id => n.tenant_id = resp.auth.tenantId

\* C1 witness: a member's list reply carries its tenant's note while a note of
\* the other tenant is stored.
C1_Witness ==
    /\ resp.op = "list" /\ resp.status = 200 /\ resp.auth.role = "member"
    /\ resp.rows # {}
    /\ \E n \in notes : n.tenant_id # resp.auth.tenantId

\* C2: a stored note is modified or removed only by a statement of a PUT or
\* DELETE on its id whose verified claim is of the note's tenant, and every
\* reply to a PUT or DELETE on the id of a note stored under another tenant is
\* a denial that leaves the notes table as it was.
C2_NoCrossTenantMutation ==
    [][ /\ \A n \in notes : n \notin notes' =>
              \E r \in Pending : /\ Acted(r)
                                 /\ r.op \in {"put", "delete"}
                                 /\ r.id = n.id
                                 /\ r.auth \in tokens
                                 /\ r.auth.tenantId = n.tenant_id
        /\ \A n \in notes :
              ( /\ resp'.op \in {"put", "delete"}
                /\ resp'.id = n.id
                /\ resp'.auth.tenantId # n.tenant_id )
              => resp'.status \in {403, 404} /\ notes' = notes
      ]_vars

\* C2 witness: an admin's PUT or DELETE on a stored note of the other tenant
\* has been denied.
C2_Witness ==
    /\ resp.op \in {"put", "delete"} /\ resp.auth.role = "admin"
    /\ resp.status \in {403, 404}
    /\ \E n \in notes : n.id = resp.id /\ n.tenant_id # resp.auth.tenantId

\* C3: a member's PUT or DELETE on a note of its tenant that another user owns
\* is answered 403 and changes no note, and no statement of a member's request
\* changes a note the member does not own; an admin's PUT or DELETE on a note
\* of its tenant is never refused, its UPDATE stores the supplied fields and
\* its DELETE removes the note.
C3_OwnershipGating ==
    [][ /\ \A n \in notes :
              ( /\ resp'.op \in {"put", "delete"}
                /\ resp'.id = n.id
                /\ resp'.auth.tenantId = n.tenant_id
                /\ resp'.auth.role = "member"
                /\ resp'.auth.sub # n.user_id )
              => resp'.status = 403 /\ notes' = notes
        /\ \A n \in notes : \A r \in Pending :
              (Acted(r) /\ r.auth.role = "member" /\ n \notin notes')
              => r.auth.sub = n.user_id
        /\ \A n \in notes :
              ( /\ resp'.op \in {"put", "delete"}
                /\ resp'.id = n.id
                /\ resp'.auth.tenantId = n.tenant_id
                /\ resp'.auth.role = "admin" )
              => /\ resp'.status = 200
                 /\ \E r \in Pending :
                       /\ Acted(r) /\ r.auth = resp'.auth /\ r.id = n.id
                       /\ r.op = resp'.op
                       /\ IF r.op = "delete"
                          THEN notes' = notes \ {n}
                          ELSE notes' = (notes \ {n}) \cup
                                  {[n EXCEPT
                                      !.title = IF r.title = Null THEN n.title ELSE r.title,
                                      !.content = IF r.content = Null THEN n.content
                                                  ELSE r.content]}
      ]_vars

\* C3 witness: an admin's PUT has rewritten a note that a member of its tenant
\* owns.
C3_Witness ==
    /\ resp.op = "put" /\ resp.status = 200 /\ resp.auth.role = "admin"
    /\ \E n \in notes : /\ n.id = resp.id
                        /\ n.tenant_id = resp.auth.tenantId
                        /\ n.user_id # resp.auth.sub
                        /\ n.title = "t2"

\* C4: every reply to an upgrade or invite request whose claim has role member
\* is 403, whatever slug the request names, and the step changes neither a
\* plan nor the users table.
C4_RoleGating ==
    [][ (resp'.op \in {"upgrade", "invite"} /\ resp'.auth.role = "member")
        => resp'.status = 403 /\ plan' = plan /\ users' = users
      ]_vars

\* C4 witness: a member's upgrade of its own tenant has been answered 403.
C4_Witness ==
    /\ resp.op = "upgrade" /\ resp.auth.role = "member"
    /\ resp.slug = resp.auth.tenantSlug
    /\ resp.status = 403

\* C5: a step changes a tenant's plan only by answering 200 to an upgrade
\* request whose verified claim has role admin, that tenant's id and, as
\* tenantSlug, the slug in the path, which is that tenant's slug; an admin's
\* upgrade naming another slug is answered 403 and changes no plan.
C5_PlanChangedOnlyByOwnAdmin ==
    [][ /\ \A t \in TenantIds : plan'[t] # plan[t] =>
              /\ resp'.op = "upgrade" /\ resp'.status = 200
              /\ resp'.auth \in tokens
              /\ resp'.auth.role = "admin"
              /\ resp'.auth.tenantId = t
              /\ resp'.slug = resp'.auth.tenantSlug
              /\ resp'.slug = Slug(t)
              /\ plan'[t] = "pro"
        /\ ( /\ resp'.op = "upgrade" /\ resp'.auth.role = "admin"
             /\ resp'.slug # resp'.auth.tenantSlug )
           => resp'.status = 403 /\ plan' = plan
      ]_vars

\* C5 witness: an admin's upgrade naming the other tenant's slug has been
\* answered 403 after the admin upgraded its own tenant.
C5_Witness ==
    /\ resp.op = "upgrade" /\ resp.auth.role = "admin" /\ resp.status = 403
    /\ resp.slug # resp.auth.tenantSlug
    /\ plan[resp.auth.tenantId] = "pro"
    /\ \E t \in TenantIds : Slug(t) = resp.slug /\ plan[t] = "free"

\* C6: a well-formed create that finds the stored plan pro goes to its INSERT
\* without counting; one that finds it free counts, goes to its INSERT exactly
\* if the count is below 3 and is otherwise answered 402 note_limit_reached
\* with the notes table unchanged; a create that has reached its INSERT is
\* answered 201 and stores one note.  A 402 is sent only with 3 or more notes
\* stored for the tenant.
C6_QuotaDecision ==
    [][ /\ \A r \in BagToSet(inflight') : (Arrived(r) /\ r.op = "create") =>
              /\ r.tplan = plan[r.auth.tenantId]
              /\ r.pc = (IF plan[r.auth.tenantId] = "pro" THEN "insert" ELSE "count")
              /\ resp' = NoResp /\ notes' = notes
        /\ \A r \in Pending : (Acted(r) /\ r.op = "create" /\ r.pc = "count") =>
              /\ r.tplan = "free"
              /\ IF Cardinality(TenantNotes(r.auth.tenantId)) < 3
                 THEN /\ resp' = NoResp
                      /\ CopiesIn([r EXCEPT !.pc = "insert"], inflight') >
                            CopiesIn([r EXCEPT !.pc = "insert"], inflight)
                 ELSE /\ resp'.op = "create" /\ resp'.auth = r.auth
                      /\ resp'.status = 402
                      /\ resp'.error = "note_limit_reached"
                      /\ BagCardinality(inflight') < BagCardinality(inflight)
              /\ notes' = notes
        /\ \A r \in Pending : (Acted(r) /\ r.op = "create" /\ r.pc = "insert") =>
              /\ resp'.op = "create" /\ resp'.auth = r.auth /\ resp'.status = 201
              /\ \E n \in notes' \ notes :
                    /\ notes' = notes \cup {n}
                    /\ n.tenant_id = r.auth.tenantId
                    /\ resp'.rows = {Row(n)}
        /\ (resp'.op = "create" /\ resp'.status = 402) =>
              Cardinality(TenantNotes(resp'.auth.tenantId)) >= 3
      ]_vars

\* C6 witness: on a free tenant three creates have stored the notes 1, 2, 3
\* and the fourth has been answered 402.
C6_Witness ==
    /\ resp.op = "create" /\ resp.status = 402
    /\ plan[resp.auth.tenantId] = "free"
    /\ nextNoteId = 4
    /\ {n.id : n \in TenantNotes(resp.auth.tenantId)} = {1, 2, 3}
    /\ inflight = EmptyBag

\* C7: a tenant whose stored plan is free holds at most 3 notes.
C7_FreePlanCap ==
    \A t \in TenantIds : plan[t] = "free" => Cardinality(TenantNotes(t)) <= 3

\* C8: under the schedule of SpecQuotaSerial (no two creations of one tenant
\* overlap between count and INSERT), a tenant whose stored plan is free holds
\* at most 3 notes.
C8_CapWithoutOverlap ==
    \A t \in TenantIds : plan[t] = "free" => Cardinality(TenantNotes(t)) <= 3

\* C8 witness: a creation of a free tenant has just stored the tenant's third
\* note while a second creation of the same tenant, started before that
\* INSERT, has still to count.
C8_Witness ==
    /\ resp.op = "create" /\ resp.status = 201
    /\ plan[resp.auth.tenantId] = "free"
    /\ Cardinality(TenantNotes(resp.auth.tenantId)) = 3
    /\ \E q \in Pending : /\ q.op = "create" /\ q.pc = "count"
                          /\ q.auth.tenantId = resp.auth.tenantId

\* C9: a create that arrives with a verified claim of a tenant whose stored
\* plan is pro is recorded with plan pro and goes to its INSERT without a
\* count, whatever plan its claim carries, and a create recorded with plan pro
\* is answered 201, never 402.
C9_UpgradeTakesEffect ==
    [][ /\ \A r \in BagToSet(inflight') :
              (Arrived(r) /\ r.op = "create" /\ plan[r.auth.tenantId] = "pro")
              => r.tplan = "pro" /\ r.pc = "insert"
        /\ \A r \in Pending : (Acted(r) /\ r.op = "create" /\ r.tplan = "pro") =>
              resp'.op = "create" /\ resp'.status = 201
      ]_vars

\* C9 witness: a token issued while the tenant was free (its claim still says
\* free) has created the tenant's fourth note after the upgrade.
C9_Witness ==
    /\ resp.op = "create" /\ resp.status = 201
    /\ resp.auth.plan = "free"
    /\ plan[resp.auth.tenantId] = "pro"
    /\ Cardinality(TenantNotes(resp.auth.tenantId)) = 4

\* C10: the reply of the first statement of GET, PUT or DELETE /notes/:id to
\* an id under which the claim's tenant stores no note is 404 'Note not found'
\* with nothing else in it, the same whether another tenant stores a note
\* under that id or no note has that id.
C10_LeakAvoidance ==
    [][ ( /\ resp'.op \in {"get", "put", "delete"}
          /\ FirstStatement
          /\ ~\E n \in notes : n.id = resp'.id /\ n.tenant_id = resp'.auth.tenantId )
        => resp' = Reply(resp'.op, resp'.auth, resp'.id, "", 404, "Note not found", {})
      ]_vars

\* C10 witness: a GET of the id of a stored note of another tenant has been
\* answered 404.
C10_Witness ==
    /\ resp.op = "get" /\ resp.status = 404 /\ resp.error = "Note not found"
    /\ \E n \in notes : n.id = resp.id /\ n.tenant_id # resp.auth.tenantId

\* C11: a reply on a protected endpoint to a request that carries no verified
\* claim is a 401 ('Unauthorized' or 'Invalid token') without rows, sent by a
\* step that leaves the tables, the issued tokens and the requests in flight
\* as they were; every request a handler has started carries a verified claim,
\* and a step that changes a table answers a verified claim.
C11_AuthGate ==
    [][ /\ (resp' # NoResp /\ resp'.op \in ProtectedOps /\ resp'.auth \notin tokens) =>
              /\ resp'.status = 401
              /\ resp'.error \in {"Unauthorized", "Invalid token"}
              /\ resp'.rows = {}
              /\ UNCHANGED <<plan, users, notes, nextNoteId, tokens, inflight>>
        /\ \A r \in BagToSet(inflight') : r.auth \in tokens
        /\ <<plan, users, notes>>' # <<plan, users, notes>> => resp'.auth \in tokens
      ]_vars

\* C11 witness: an invite with a token that fails verification is answered
\* 401 while a note is stored and a token has been issued.
C11_Witness ==
    /\ resp.op = "invite" /\ resp.status = 401 /\ resp.error = "Invalid token"
    /\ resp.auth = NoAuth
    /\ notes # {} /\ tokens # {}

\* The headers whose token fails verification at second t, by the way it fails.
MalformedHeaders == {Bearer(Malformed)}

BadSignatureHeaders ==
    {Bearer(ForgedExpiry(j)) : j \in jwts} \cup {Bearer(WrongKey(j)) : j \in jwts}

ExpiredHeaders(t) == {Bearer(j) : j \in {k \in jwts : t >= k[2][8]}}

\* C12: at every second, for every required role, the middleware answers a
\* malformed token, a token with a wrong signature and an expired token with
\* one and the same response: 401 with the body {error: 'Invalid token'}.
C12_OpaqueTokenFailure ==
    \A requiredRole \in {"", "admin", "member"} :
        \A h \in MalformedHeaders \cup BadSignatureHeaders \cup ExpiredHeaders(now) :
            requireAuth(h, requiredRole, now) =
                [status |-> 401, error |-> "Invalid token", auth |-> NoAuth]

\* C12 witness: the clock is past the expiry of an issued token (so all three
\* kinds of failing token exist) and the last request was answered 401
\* 'Invalid token'.
C12_Witness ==
    /\ ExpiredHeaders(now) # {}
    /\ BadSignatureHeaders # {}
    /\ resp.status = 401 /\ resp.error = "Invalid token"

\* C13: a token login issues at second now carries iat = now and
\* exp = now + ExpiresIn and its payload is the claim of the login response;
\* every issued token is, at the current second, accepted with exactly the
\* claim fields it was issued for when less than ExpiresIn seconds have passed
\* since its iat, and rejected (401) when the clock is past its exp.
C13_TokenRoundTrip ==
    [][ /\ \A j \in jwts' \ jwts :
              /\ resp'.status = 200 /\ resp'.op = "login"
              /\ AuthOf(DecodePayload(j[2])) = resp'.auth
              /\ j[2][7] = now /\ j[2][8] = now + ExpiresIn
        /\ \A j \in jwts' :
              /\ now' - j[2][7] < ExpiresIn =>
                    /\ jwtVerify(j, now').ok
                    /\ AuthOf(jwtVerify(j, now').decoded) \in tokens'
                    /\ AuthOf(jwtVerify(j, now').decoded) = AuthOf(DecodePayload(j[2]))
                    /\ requireAuth(Bearer(j), "", now') =
                          [status |-> 0, error |-> "", auth |-> AuthOf(DecodePayload(j[2]))]
              /\ now' > j[2][8] =>
                    /\ ~jwtVerify(j, now').ok
                    /\ requireAuth(Bearer(j), "", now').status = 401
      ]_vars

\* C13 witness: one issued token is past its expiry, another is younger than
\* ExpiresIn, and a request with a token was just answered 200.
C13_Witness ==
    /\ \E j \in jwts : now > j[2][8]
    /\ \E j \in jwts : now - j[2][7] < ExpiresIn
    /\ resp.op = "list" /\ resp.status = 200

\* C14: a login step with a non-empty email that no stored user has, and a
\* login step with a stored user's email and a password other than the stored
\* one, send the same response (401, {error: 'Invalid credentials'}) and issue
\* no token.
C14_LoginOpaque ==
    [][ \A email \in LoginEmails, password \in PasswordInputs :
          /\ Login(email, password)
          /\ ~Falsy(email) /\ ~Falsy(password)
          /\ \/ ~(\E u \in users : u.email = email)
             \/ (\E u \in users : u.email = email) /\ password # "password"
          => /\ resp' = Reply("login", NoAuth, 0, "", 401, "Invalid credentials", {})
             /\ tokens' = tokens
      ]_vars

\* C14 witness: a login was just refused with 401 'Invalid credentials' while
\* the invited email is stored (so a wrong password for it and an unknown
\* email have both been possible) and a token of an earlier login exists.
C14_Witness ==
    /\ resp.op = "login" /\ resp.status = 401 /\ resp.error = "Invalid credentials"
    /\ \E u \in users : u.email = NewEmail
    /\ tokens # {}

OneTenantPerUser ==
    /\ \A u, v \in users : u.id = v.id => u = v
    /\ \A u \in users : u.tenant_id \in TenantIds /\ u.role \in {"admin", "member"}

\* C16: every user has exactly one tenant; no step removes a user or changes
\* a user's tenant; the users table changes only by a successful invite, which
\* adds exactly one user, with the requested email and role (admin or member)
\* and the tenant id of the inviting admin's claim, whose slug is the path's.
C16_UserTenantMembership ==
    [][ /\ OneTenantPerUser'
        /\ \A u \in users : u \in users'
        /\ users' # users => resp'.op = "invite" /\ resp'.status = 200
        /\ \A tok \in tokens, slug \in Slugs, email \in InviteEmails, role \in RoleInputs :
              (Invite(tok, slug, email, role) /\ resp'.status = 200) =>
                  /\ tok.role = "admin" /\ role \in {"admin", "member"}
                  /\ slug = Slug(tok.tenantId)
                  /\ \E u \in users' \ users :
                        /\ users' = users \cup {u}
                        /\ u.email = email /\ u.role = role
                        /\ u.tenant_id = tok.tenantId
                        /\ \A v \in users : v.id # u.id
      ]_vars

\* C16 witness: an invite has just succeeded and the invited user is stored.
C16_Witness ==
    /\ resp.op = "invite" /\ resp.status = 200
    /\ \E u \in users : u.email = NewEmail /\ u.tenant_id = resp.auth.tenantId

EmailsUnique == \A u, v \in users : u.email = v.email => u = v

\* C17: an invite that passes the role, slug and body tests and whose email a
\* stored user (of any tenant) has is answered 409 'User already exists' and
\* leaves the users table as it was; user emails are unique after every step.
C17_DuplicateInvite ==
    [][ /\ EmailsUnique'
        /\ \A tok \in tokens, slug \in Slugs, email \in InviteEmails, role \in RoleInputs :
              (/\ Invite(tok, slug, email, role)
               /\ tok.role = "admin" /\ slug = tok.tenantSlug
               /\ email # "" /\ role \in {"admin", "member"}
               /\ \E u \in users : u.email = email) =>
                  /\ resp' = Reply("invite", tok, 0, slug, 409, "User already exists", {})
                  /\ users' = users
      ]_vars

\* C17 witness: globex's admin was answered 409 for an email that a user of
\* acme has.
C17_Witness ==
    /\ resp.op = "invite" /\ resp.status = 409 /\ resp.error = "User already exists"
    /\ resp.auth.tenantId = 2
    /\ \A u \in users : u.tenant_id = 2 => u \in SeedUsers

\* C20: a note enters the table only by the INSERT of a POST /notes, with the
\* tenantId and sub of that request's claim and the next id; every stored
\* note's tenant is the tenant of the stored user that owns it; and no step
\* changes the id, tenant_id, user_id or created_at of a stored note.
C20_NoteProvenance ==
    [][ /\ \A n \in notes' :
              (\A m \in notes : m.id # n.id) =>
                  /\ resp'.op = "create" /\ resp'.status = 201
                  /\ resp'.auth \in tokens
                  /\ n.tenant_id = resp'.auth.tenantId
                  /\ n.user_id = resp'.auth.sub
                  /\ n.id = nextNoteId /\ n.created_at = now
        /\ \A n \in notes' : \E u \in users' :
              u.id = n.user_id /\ u.tenant_id = n.tenant_id
        /\ \A n \in notes : \A m \in notes' :
              m.id = n.id =>
                  /\ m.tenant_id = n.tenant_id /\ m.user_id = n.user_id
                  /\ m.created_at = n.created_at
        /\ \A m, n \in notes' : m.id = n.id => m = n
      ]_vars

\* C20 witness: a PUT has just rewritten the title of a note at a later second
\* than the one the note was created at.
C20_Witness ==
    /\ resp.op = "put" /\ resp.status = 200
    /\ \E n \in notes : /\ n.id = resp.id /\ n.title = "t2"
                         /\ n.updated_at > n.created_at

\* C18: after every step the Notes page is rendered exactly when the location
\* is /notes and a token is stored, and the Login page exactly when the
\* location is / and no token is stored; at every other combination a
\* redirect is rendered, and following it leads to /notes with a token and to
\* / without one, where the page is rendered.
C18_RouteGuard ==
    [][ /\ client'.page = "Notes" <=>
              (client'.path = "/notes" /\ client'.storage.token # NoToken)
        /\ client'.page = "Login" <=>
              (client'.path = "/" /\ client'.storage.token = NoToken)
        /\ client'.page \in {"Notes", "Login", "Navigate"}
        /\ FollowNavigate =>
              /\ client'.storage = client.storage
              /\ client'.path = IF client.storage.token # NoToken THEN "/notes" ELSE "/"
              /\ client'.page = IF client.storage.token # NoToken THEN "Notes" ELSE "Login"
      ]_vars

\* C18 witness: with a token stored, the location / has been opened and the
\* redirect is about to lead to /notes.
C18_Witness ==
    /\ client.page = "Navigate" /\ client.path = "/"
    /\ client.storage.token # NoToken

\* C19: when GET /notes, sent by the Notes page with the stored token, is
\* answered 401, the stored session is cleared and the location is the login
\* route.
C19_AutoLogout ==
    (resp.op = "list" /\ resp.status = 401) =>
        /\ client.storage = EmptyStorage
        /\ client.path = "/"
        /\ client.page = "Login"

\* C21: a token login issues carries, in the step that issues it, the stored
\* plan of its tenant; after every step every issued claim has the id, email,
\* role and tenant of a stored user and that tenant's slug, and its plan is
\* the stored plan of its tenant or is free while the stored plan is pro.
C21_StalenessOnlyInPlan ==
    [][ /\ \A tok \in tokens' \ tokens :
              /\ resp'.op = "login" /\ resp'.status = 200 /\ resp'.auth = tok
              /\ tok.plan = plan[tok.tenantId] /\ plan' = plan
        /\ \A tok \in tokens' :
              /\ \E u \in users' :
                    /\ u.id = tok.sub /\ u.email = tok.email /\ u.role = tok.role
                    /\ u.tenant_id = tok.tenantId
              /\ tok.tenantId \in TenantIds /\ tok.tenantSlug = Slug(tok.tenantId)
              /\ \/ tok.plan = plan'[tok.tenantId]
                 \/ tok.plan = "free" /\ plan'[tok.tenantId] = "pro"
      ]_vars

\* C21 witness: after an upgrade, a token issued before it says free and a
\* token issued after it says pro.
C21_Witness ==
    \E old, new \in tokens :
        /\ old.tenantId = new.tenantId /\ plan[old.tenantId] = "pro"
        /\ old.plan = "free" /\ new.plan = "pro"

\* C22: the UPDATE of a PUT that passed its lookup leaves every note with
\* another id as it is and replaces the note with its id, if still stored, by
\* one with the same id, tenant and owner whose title and content are the
\* supplied values, a null one standing for the value before the UPDATE; the
\* response carries the row of the note as updated.
C22_PartialUpdate ==
    [][ \A r \in Pending : (Acted(r) /\ r.op = "put") =>
          /\ \A n \in notes : n.id # r.id => n \in notes'
          /\ \A m \in notes' : m.id # r.id => m \in notes
          /\ \A n \in notes : n.id = r.id =>
                \E m \in notes' :
                    /\ m.id = n.id /\ m.tenant_id = n.tenant_id /\ m.user_id = n.user_id
                    /\ m.title = (IF r.title = Null THEN n.title ELSE r.title)
                    /\ m.content = (IF r.content = Null THEN n.content ELSE r.content)
                    /\ \A k \in notes' : k.id = n.id => k = m
                    /\ resp'.rows = {Row(m)}
          /\ resp'.op = "put" /\ resp'.status = 200
      ]_vars

\* C22 witness: a PUT that supplied only a title has rewritten the title of a
\* note and left its content, while a note of the other tenant is stored.
C22_Witness ==
    /\ resp.op = "put" /\ resp.status = 200
    /\ \E n \in notes : n.id = resp.id /\ n.title = "t2" /\ n.content = "c1"
    /\ \E n \in notes : n.tenant_id # resp.auth.tenantId

\* C23: the count step of a create on a free tenant refuses with 402 exactly
\* when 3 or more notes are stored at that moment under the claim's tenant,
\* whoever created them; the ids handed out before (deleted notes) and the
\* notes stored under other tenants have no part in it.
C23_LimitCountsTenant ==
    [][ \A r \in Pending : (Acted(r) /\ r.op = "create" /\ r.pc = "count") =>
          LET stored == {n \in notes : n.tenant_id = r.auth.tenantId}
          IN  /\ (resp'.op = "create" /\ resp'.status = 402) <=> Cardinality(stored) >= 3
              /\ Cardinality(stored) < 3 => resp' = NoResp
      ]_vars

\* C23 witness: on a free tenant, after one of three notes was deleted, a
\* fourth create was answered 201; the three notes now stored were created by
\* two users of the tenant.
C23_Witness ==
    /\ resp.op = "create" /\ resp.status = 201 /\ resp.id = 4
    /\ plan[resp.auth.tenantId] = "free"
    /\ Cardinality(TenantNotes(resp.auth.tenantId)) = 3
    /\ \E m, n \in TenantNotes(resp.auth.tenantId) : m.user_id # n.user_id

\* ----------------------------------------------------------------- C24
\* C24: a create sent from the Notes page with a non-empty trimmed title and
\* an empty content is not answered with a validation error (400).
C24_ContentOptional ==
    [][(ClickCreate /\ Falsy(Trim(client.content))) => client'.reply.status # 400]_vars

\* ----------------------------------------------------------------- C25
\* C25: when handleCreateNote goes on after a failed create, a response with
\* status 402 or error note_limit_reached opens the limit notice and leaves
\* the error message as it is; every other failure sets the error message to
\* the one of the response and leaves the notice as it is; in both cases the
\* title and the content fields keep their text.
C25_QuotaErrorMapping ==
    [][(SettleCreate /\ ~client.stale /\ client.reply.status \notin 200..299) =>
          LET r == client.reply
              quota == r.status = 402 \/ r.error = "note_limit_reached"
          IN  /\ quota => client'.modal /\ client'.error = client.error
              /\ ~quota => /\ client'.error = r.error /\ client'.error # Null
                            /\ client'.modal = client.modal
              /\ client'.title = client.title
              /\ client'.content = client.content
              /\ client'.awaiting = ""]_vars

\* A member, who cannot open the notice by hand, has it open after the fourth
\* create of a free tenant was refused, the form still filled in.
C25_Witness ==
    /\ client.page = "Notes" /\ client.storage.role = "member"
    /\ client.modal /\ client.error = Null /\ client.awaiting = ""
    /\ Trim(client.title) = "t1"
    /\ resp.op = "create" /\ resp.status = 402
    /\ Cardinality(notes) = FreeLimit

\* ----------------------------------------------------------------- C26
\* C26: the stored token changes only by a successful login, which stores
\* token, email, role, tenantSlug, tenantName and plan and then shows /notes,
\* and by a logout, which leaves localStorage empty; a login that fails or
\* has an empty email or password stores nothing and stays on the login page.
C26_SessionLifecycle ==
    [][/\ client'.storage.token # client.storage.token =>
            \/ /\ \E email \in LoginEmails, password \in PasswordInputs :
                      SubmitLogin(email, password)
               /\ resp'.op = "login" /\ resp'.status = 200
               /\ client.storage.token = NoToken
               /\ client'.storage.token = jwtSign(resp'.auth, now)
            \/ client'.storage = EmptyStorage
       /\ (\E email \in LoginEmails, password \in PasswordInputs :
              SubmitLogin(email, password)) =>
            IF client'.storage.token # client.storage.token
            THEN /\ \A k \in {"email", "role", "tenantSlug", "tenantName", "plan"} :
                       client'.storage[k] # Null
                 /\ client'.storage.email = resp'.auth.email
                 /\ client'.storage.role = resp'.auth.role
                 /\ client'.storage.tenantSlug = resp'.auth.tenantSlug
                 /\ client'.storage.plan = resp'.auth.plan
                 /\ client'.path = "/notes" /\ client'.page = "Notes"
            ELSE /\ client'.storage = client.storage
                 /\ client'.path = client.path /\ client'.page = "Login"
                 /\ client'.error # Null
       /\ SignOut => client'.storage = EmptyStorage /\ client'.path = "/"
      ]_vars

\* After a login and a logout: a token was issued, localStorage is empty and
\* the login page is shown.
C26_Witness ==
    /\ jwts # {} /\ client.storage = EmptyStorage
    /\ client.path = "/" /\ client.page = "Login"

\* ----------------------------------------------------------------- C27
\* C27: handleUpgrade changes nothing before upgradeTenant has settled; after
\* a success (the tenant is pro in the database) the stored plan is pro and,
\* on the page that asked, the displayed plan is pro and the limit notice is
\* closed; after a failure the stored plan, the displayed plan and the notice
\* stay and the error message is set; the request is sent only for the stored
\* role admin and names the stored tenant slug.
C27_UpgradeFlow ==
    [][/\ ClickUpgrade =>
            /\ client.storage.role = "admin" /\ client.modal
            /\ resp'.op = "upgrade" /\ resp'.slug = client.storage.tenantSlug
            /\ client'.storage = client.storage
            /\ client'.currentPlan = client.currentPlan
            /\ client'.modal = client.modal
       /\ SettleUpgrade =>
            IF client.reply.status = 200
            THEN /\ \E t \in TenantIds :
                       Slug(t) = client.reply.slug /\ plan[t] = "pro"
                 /\ client'.storage = [client.storage EXCEPT !.plan = "pro"]
                 /\ ~client.stale => client'.currentPlan = "pro" /\ ~client'.modal
            ELSE /\ client'.storage = client.storage
                 /\ client'.currentPlan = client.currentPlan
                 /\ client'.modal = client.modal
                 /\ ~client.stale => client'.error = client.reply.error
                                         /\ client'.error # Null
      ]_vars

\* An admin's upgrade has succeeded and its handler has gone on: the tenant is
\* pro, the stored and the displayed plan are pro and the notice is closed.
C27_Witness ==
    /\ client.page = "Notes" /\ client.storage.role = "admin"
    /\ client.awaiting = "" /\ ~client.modal
    /\ resp.op = "upgrade" /\ resp.status = 200
    /\ resp.slug = client.storage.tenantSlug
    /\ client.storage.plan = "pro" /\ client.currentPlan = "pro"
    /\ \E t \in TenantIds : Slug(t) = resp.slug /\ plan[t] = "pro"

====
